---- MODULE Spec2Model ----
(***************************************************************************)
(* Model of the defect-tracking microservice suite:                        *)
(*   - svc_defects: the status-transition validator, the history recorder  *)
(*     and the PATCH /defects/{id} orchestrator over the defects and       *)
(*     defect_history tables;                                              *)
(*   - svc_gateway: the request_with_retry primitive.                      *)
(* Values are modelled as strings; Python's None is the string "None" and  *)
(* a field left out of a PATCH payload (exclude_unset) is "Unset".         *)
(***************************************************************************)
EXTENDS Integers, Sequences, FiniteSets, TLC

\* ------------------------------------------------------------------ bounds

\* Highest reading of the wall clock (datetime.now(UTC)).
MaxTime == 1
\* Number of POST /defects/ requests made.
MaxCreates == 1
\* Number of PATCH /defects/{id} requests made.
MaxPatches == 2
\* Largest retries argument given to request_with_retry.
MaxRetries == 3

\* ------------------------------------------------------------ value domains

None == "None"
Unset == "Unset"

DefectStatus == {"NEW", "IN_PROGRESS", "ON_REVIEW", "CLOSED", "CANCELED"}
DefectPriority == {"LOW", "MEDIUM", "HIGH", "CRITICAL"}

\* The two PATCH handlers that can be in flight at once.
Requests == {"r1", "r2"}

Users == {"u1", "u2"}
Roles == {"ENGINEER", "MANAGER", "ADMIN", "SUPERVISOR", "CUSTOMER"}

\* Callers as decoded from the bearer token: user_id and role.
Callers ==
  { [user_id |-> "u1", role |-> "ENGINEER"],
    [user_id |-> "u2", role |-> "MANAGER"],
    [user_id |-> "u1", role |-> "CUSTOMER"] }

\* The callers that send PATCH requests.
PatchCallers == { c \in Callers : c.role \in {"ENGINEER", "MANAGER"} }

\* The fields DefectUpdate can carry.
UpdateFields ==
  {"title", "description", "priority", "status", "assignee_id", "due_date", "location"}

\* tracked_fields of update_defect, in the order of the list.
tracked_fields == <<"status", "priority", "assignee_id", "due_date", "title", "location">>

\* defects, history: the rows of the defects and defect_history tables (history
\*   in insertion order); nextId: the next fresh defect id; now: the wall clock;
\* creates, created: the POST /defects/ requests made, and the last one with its
\*   response;
\* patches: the PATCH requests started; pc, req: for each handler, whether it is
\*   suspended in a PATCH, and that request with the defect as loaded into its
\*   session; done: the last PATCH answered, with its response;
\* updates: per defect, the PATCHes committed that changed a field of the defect
\*   they loaded, and the tracked fields they changed (bookkeeping for the claims
\*   about the length of the history);
\* listing: the last GET /defects/{id}/history with its response;
\* call: the state of one request_with_retry call.
VARIABLES defects, history, nextId, now, creates, created, patches, pc, req, done,
          updates, listing, call

\* proxy: the gateway's proxy_to_defects request in progress or last answered;
\* fetched: the last DataFetcherService operation with its upstream answer and
\*   its outcome;
\* exported: the last GET /reports/export with its response;
\* generated: the defect list last given to the ReportGenerator functions, with
\*   their results;
\* comments, attachments: the rows of the comments and attachments tables;
\* removed: the last DELETE /defects/{id} with its response.
VARIABLES proxy, fetched, exported, generated, comments, attachments, removed

reports == <<fetched, exported, generated>>

attached == <<comments, attachments, removed>>

vars == <<defects, history, nextId, now, creates, created, patches, pc, req, done,
          updates, listing, call, proxy, reports, attached>>

db == <<defects, history, nextId, updates>>

\* ------------------------------------------------- svc_defects: pure parts

\* A table that lets a NEW defect be closed without review.
valid_transitions_skip_review(current_status) ==
  CASE current_status = "NEW" -> {"IN_PROGRESS", "CANCELED", "CLOSED"}
    [] current_status = "IN_PROGRESS" -> {"ON_REVIEW", "CANCELED"}
    [] current_status = "ON_REVIEW" -> {"CLOSED", "IN_PROGRESS", "CANCELED"}
    [] OTHER -> {}

\* valid_transitions.get(current_status, []) of check_valid_status_transition.
valid_transitions(current_status) ==
  CASE current_status = "NEW" -> {"IN_PROGRESS", "CANCELED"}
    [] current_status = "IN_PROGRESS" -> {"ON_REVIEW", "CANCELED"}
    [] current_status = "ON_REVIEW" -> {"CLOSED", "IN_PROGRESS", "CANCELED"}
    [] OTHER -> {}

\* The response of a handler: the HTTP status code and, for an HTTPException, what
\* its detail names (kind of message, statuses and allowed set it mentions).
Response(code, kind, current, target, allowed) ==
  [code |-> code, kind |-> kind, current |-> current, target |-> target,
   allowed |-> allowed]

Ok == Response(200, "ok", None, None, {})

\* A validator that forgets the check against the table.
check_valid_status_transition_no_table(current_status, new_status) ==
  IF current_status = new_status
    THEN Ok
    ELSE IF current_status \in {"CLOSED", "CANCELED"}
      THEN Response(400, "final status", current_status, None, {})
      ELSE Ok

\* A validator whose message for an illegal move lists no allowed status.
check_valid_status_transition_omits_allowed(current_status, new_status) ==
  IF current_status = new_status
    THEN Ok
    ELSE IF current_status \in {"CLOSED", "CANCELED"}
      THEN Response(400, "final status", current_status, None, {})
      ELSE IF new_status \notin valid_transitions(current_status)
        THEN Response(400, "invalid transition", current_status, new_status, {})
        ELSE Ok

\* check_valid_status_transition: Ok for "return True", else the HTTPException.
check_valid_status_transition(current_status, new_status) ==
  IF current_status = new_status
    THEN Ok
    ELSE IF current_status \in {"CLOSED", "CANCELED"}
      THEN Response(400, "final status", current_status, None, {})
      ELSE LET allowed_statuses == valid_transitions(current_status)
           IN  IF new_status \notin allowed_statuses
                 THEN Response(400, "invalid transition", current_status,
                               new_status, allowed_statuses)
                 ELSE Ok

\* What the user directory (svc_auth) can answer to GET /users/{id}: an HTTP
\* status, a timeout or a connection-level error.
DirectoryAnswers == {"200", "404", "500", "timeout", "connect_error"}

\* The answers tried for the calls create_defect makes.
RegistryAnswers == {"200", "404", "timeout"}

\* A validation that lets the update go on when the directory times out.
validate_user_exists_ignores_timeout(answer) ==
  CASE answer = "200" -> Ok
    [] answer = "404" -> Response(404, "user not found", None, None, {})
    [] answer = "timeout" -> Ok
    [] answer = "connect_error" -> Response(503, "auth unavailable", None, None, {})
    [] OTHER -> Response(503, "auth error", None, None, {})

\* validate_user_exists, given the directory's answer.
validate_user_exists(answer) ==
  CASE answer = "200" -> Ok
    [] answer = "404" -> Response(404, "user not found", None, None, {})
    [] answer = "timeout" -> Response(503, "auth timeout", None, None, {})
    [] answer = "connect_error" -> Response(503, "auth unavailable", None, None, {})
    [] OTHER -> Response(503, "auth error", None, None, {})

\* validate_project_exists, given the project registry's answer.
validate_project_exists(answer) ==
  CASE answer = "200" -> Ok
    [] answer = "404" -> Response(404, "project not found", None, None, {})
    [] answer = "timeout" -> Response(503, "projects timeout", None, None, {})
    [] answer = "connect_error" -> Response(503, "projects unavailable", None, None, {})
    [] OTHER -> Response(503, "projects error", None, None, {})

\* Python's str() of a field value: a member of a (str, Enum) class prints as
\* ClassName.MEMBER, a UUID, a date and a str as their text.
PyStr(v) ==
  IF v \in DefectStatus THEN "DefectStatus." \o v
  ELSE IF v \in DefectPriority THEN "DefectPriority." \o v
  ELSE v

\* _create_history_entry: the DefectHistory row it adds to the session;
\* changed_at is the column default, read when the row is flushed.
_create_history_entry(defect_id, changed_by_id, field_name, old_value, new_value, at) ==
  [defect_id |-> defect_id,
   changed_by_id |-> changed_by_id,
   field_name |-> field_name,
   old_value |-> IF old_value # None THEN PyStr(old_value) ELSE None,
   new_value |-> IF new_value # None THEN PyStr(new_value) ELSE None,
   changed_at |-> at]

\* ------------------------------------------------ svc_defects: the requests

\* A DefectUpdate payload after model_dump(exclude_unset=True): the fields the
\* client sent carry their value, the others are Unset.
EmptyPayload == [f \in UpdateFields |-> Unset]

Payloads ==
  { [EmptyPayload EXCEPT !.status = s] : s \in DefectStatus }
  \cup
  { [EmptyPayload EXCEPT !.title = "t2", !.due_date = "2024-12-01",
                         !.location = "Building A"],
    [EmptyPayload EXCEPT !.assignee_id = None],
    [EmptyPayload EXCEPT !.assignee_id = "u2"],
    [EmptyPayload EXCEPT !.assignee_id = "u1", !.status = "IN_PROGRESS"],
    [EmptyPayload EXCEPT !.status = "IN_PROGRESS", !.priority = "HIGH"],
    [EmptyPayload EXCEPT !.status = "CLOSED", !.priority = "HIGH", !.description = "x2"] }

\* The DefectCreate bodies: the status defaults to NEW but is a field of the body,
\* and author_id is a required field of the body.
CreateBody(status, author_id, assignee_id) ==
  [project_id |-> "p1", title |-> "t1", description |-> "x1", priority |-> "LOW",
   status |-> status, author_id |-> author_id, assignee_id |-> assignee_id,
   due_date |-> None, location |-> None]

CreateBodies ==
  { CreateBody(s, "u2", "u1") : s \in DefectStatus } \cup { CreateBody("NEW", "u1", None) }

\* A slot that holds no request.
NoDefect ==
  [id |-> 0, project_id |-> None, title |-> None, description |-> None,
   priority |-> None, status |-> None, author_id |-> None, assignee_id |-> None,
   due_date |-> None, location |-> None, created_at |-> 0, updated_at |-> 0]

NoCaller == [user_id |-> None, role |-> None]

\* A PATCH request: its inputs, the defect as loaded, the directory's answer
\* (None while the directory was not called) and the response.
NoRequest ==
  [defect_id |-> 0, payload |-> EmptyPayload, caller |-> NoCaller,
   defect |-> NoDefect, directory |-> None,
   response |-> Response(0, "none", None, None, {})]

NoCreate ==
  [caller |-> NoCaller, author_id |-> None, status |-> None, id |-> 0,
   response |-> Response(0, "none", None, None, {})]

\* "field in update_data"
InPayload(update_data, field) == update_data[field] # Unset

\* A loop that records every tracked field of the payload, changed or not.
ChangedTracked_every_present(defect, update_data) ==
  SelectSeq(tracked_fields, LAMBDA field : InPayload(update_data, field))

\* Lines 292-306 of update_defect: the tracked fields whose history is written,
\* old_value read from the loaded defect before the new value is applied.
ChangedTracked(defect, update_data) ==
  SelectSeq(tracked_fields,
            LAMBDA field : InPayload(update_data, field)
                           /\ defect[field] # update_data[field])

HistoryEntries(defect, update_data, user_id, at) ==
  LET changed == ChangedTracked(defect, update_data)
  IN  [i \in 1..Len(changed) |->
         _create_history_entry(defect.id, user_id, changed[i],
                               defect[changed[i]], update_data[changed[i]], at)]

\* An update that refreshes updated_at only when a field changes.
ApplyUpdate_timestamp_on_change(row, defect, update_data, at) ==
  [f \in DOMAIN row |->
     IF f = "updated_at"
       THEN IF \E g \in UpdateFields :
                 InPayload(update_data, g) /\ update_data[g] # defect[g]
              THEN at ELSE row[f]
     ELSE IF f \in UpdateFields /\ InPayload(update_data, f)
             /\ update_data[f] # defect[f]
       THEN update_data[f]
       ELSE row[f]]

\* An update that writes back the updated_at it loaded when no field changes.
ApplyUpdate_timestamp_of_load(row, defect, update_data, at) ==
  [f \in DOMAIN row |->
     IF f = "updated_at"
       THEN IF \E g \in UpdateFields :
                 InPayload(update_data, g) /\ update_data[g] # defect[g]
              THEN at ELSE defect.updated_at
     ELSE IF f \in UpdateFields /\ InPayload(update_data, f)
             /\ update_data[f] # defect[f]
       THEN update_data[f]
       ELSE row[f]]

\* An update that stamps created_at as well.
ApplyUpdate_stamps_created_at(row, defect, update_data, at) ==
  [f \in DOMAIN row |->
     IF f \in {"updated_at", "created_at"} THEN at
     ELSE IF f \in UpdateFields /\ InPayload(update_data, f)
             /\ update_data[f] # defect[f]
       THEN update_data[f]
       ELSE row[f]]

\* Lines 308-315 of update_defect: setattr of every payload field on the loaded
\* object, the timestamp, and the commit. The UPDATE the session flushes writes
\* the columns whose value differs from the one loaded; row is what the table
\* holds when the commit runs.
ApplyUpdate(row, defect, update_data, at) ==
  [f \in DOMAIN row |->
     IF f = "updated_at" THEN at
     ELSE IF f \in UpdateFields /\ InPayload(update_data, f)
             /\ update_data[f] # defect[f]
       THEN update_data[f]
       ELSE row[f]]

\* The ENGINEER ownership check of update_defect (lines 270-276).
UpdateForbidden(defect, current_user) ==
  /\ current_user.role = "ENGINEER"
  /\ defect.author_id # current_user.user_id
  /\ defect.assignee_id # current_user.user_id

\* Line 282: the directory is called for a truthy assignee_id of the payload.
NeedsDirectory(update_data) ==
  InPayload(update_data, "assignee_id") /\ update_data.assignee_id # None

\* ------------------------------------------------- svc_defects: the handlers

\* The wall clock (datetime.now(UTC)) advances.
Tick ==
  /\ now < MaxTime
  /\ now' = now + 1
  /\ UNCHANGED <<db, creates, created, patches, pc, req, done, listing, call, proxy, reports, attached>>

\* An author taken from the request body.
create_author_id_from_body(current_user, defect) == defect.author_id

\* Line 90 of create_defect: author_id = current_user["user_id"].
create_author_id(current_user, defect) == current_user.user_id

\* The handler create_defect run for current_user and body defect: its gates,
\* and the row and its creation entry committed when they pass; the two
\* answers are those of the project registry and of the user directory.
create_defect_handler(current_user, defect, project_answer, user_answer) ==
  LET author_id == create_author_id(current_user, defect)
      gate ==
        IF current_user.role \notin {"ENGINEER", "MANAGER", "ADMIN"}
          THEN Response(403, "role", None, None, {})
        ELSE IF validate_project_exists(project_answer).code # 200
          THEN validate_project_exists(project_answer)
        ELSE IF defect.assignee_id # None /\ validate_user_exists(user_answer).code # 200
          THEN validate_user_exists(user_answer)
        ELSE Response(201, "created", None, None, {})
      db_defect ==
        [id |-> nextId, project_id |-> defect.project_id, title |-> defect.title,
         description |-> defect.description, priority |-> defect.priority,
         status |-> defect.status, author_id |-> author_id,
         assignee_id |-> defect.assignee_id, due_date |-> defect.due_date,
         location |-> defect.location, created_at |-> now, updated_at |-> now]
  IN  /\ created' = [caller |-> current_user, author_id |-> defect.author_id,
                     status |-> defect.status,
                     id |-> IF gate.code = 201 THEN nextId ELSE 0,
                     response |-> gate]
      /\ IF gate.code = 201
           THEN /\ defects' = defects @@ (nextId :> db_defect)
                /\ history' =
                     Append(history,
                            _create_history_entry(
                              nextId, author_id, "created", None,
                              "Defect created with status " \o defect.status, now))
                /\ nextId' = nextId + 1
                /\ updates' = updates @@ (nextId :> [patches |-> 0, changes |-> 0])
           ELSE UNCHANGED db

\* POST /defects/ (create_defect) sent to the defects service itself.
create_defect(current_user, defect, project_answer, user_answer) ==
  /\ creates < MaxCreates
  /\ creates' = creates + 1
  /\ create_defect_handler(current_user, defect, project_answer, user_answer)
  /\ UNCHANGED <<now, patches, pc, req, done, listing, call, proxy, reports, attached>>

CreateDefect ==
  \E current_user \in Callers, defect \in CreateBodies,
     project_answer \in RegistryAnswers, user_answer \in RegistryAnswers :
    create_defect(current_user, defect, project_answer, user_answer)

\* A handler that validates the status after it has applied and committed the
\* other fields of the payload.
update_defect_finish_validates_late(r, rq) ==
  LET update_data == rq.payload
      defect == rq.defect
      checked ==
        IF InPayload(update_data, "status")
          THEN check_valid_status_transition(defect.status, update_data.status)
          ELSE Ok
      applied == IF checked.code # 200
                   THEN [update_data EXCEPT !.status = Unset]
                   ELSE update_data
  IN  /\ pc' = [pc EXCEPT ![r] = "idle"]
      /\ req' = [req EXCEPT ![r] = NoRequest]
      /\ done' = [rq EXCEPT !.response = checked]
      /\ history' = history \o HistoryEntries(defect, applied, rq.caller.user_id, now)
      /\ defects' = [defects EXCEPT ![defect.id] = ApplyUpdate(@, defect, applied, now)]
      /\ UNCHANGED <<nextId, updates>>

\* Lines 285-316 of update_defect, run without a suspension point: the status
\* validation, the history entries, the field updates, the timestamp, the commit.
\* The handler r is free again and rq is answered.
update_defect_finish(r, rq) ==
  LET update_data == rq.payload
      defect == rq.defect
      checked ==
        IF InPayload(update_data, "status")
          THEN check_valid_status_transition(defect.status, update_data.status)
          ELSE Ok
  IN  /\ pc' = [pc EXCEPT ![r] = "idle"]
      /\ req' = [req EXCEPT ![r] = NoRequest]
      /\ done' = [rq EXCEPT !.response = checked]
      /\ IF checked.code # 200
           THEN UNCHANGED db
           ELSE /\ history' =
                     history \o HistoryEntries(defect, update_data, rq.caller.user_id, now)
                /\ defects' =
                     [defects EXCEPT ![defect.id] = ApplyUpdate(@, defect, update_data, now)]
                /\ updates' =
                     [updates EXCEPT ![defect.id] =
                        [patches |-> @.patches
                                     + IF \E f \in UpdateFields :
                                            InPayload(update_data, f)
                                            /\ update_data[f] # defect[f]
                                         THEN 1 ELSE 0,
                         changes |-> @.changes + Len(ChangedTracked(defect, update_data))]]
                /\ UNCHANGED nextId

\* The handler is answered with an HTTPException before anything is added to
\* the session.
update_defect_raise(r, rq, exception) ==
  /\ pc' = [pc EXCEPT ![r] = "idle"]
  /\ req' = [req EXCEPT ![r] = NoRequest]
  /\ done' = [rq EXCEPT !.response = exception]
  /\ UNCHANGED db

\* A handler that calls the directory before it checks the ownership.
update_defect_directory_first(r, defect_id, update_data, current_user) ==
  LET found == defect_id \in DOMAIN defects
      defect == IF found THEN defects[defect_id] ELSE NoDefect
      rq == [defect_id |-> defect_id, payload |-> update_data,
             caller |-> current_user, defect |-> defect, directory |-> None,
             response |-> Response(0, "none", None, None, {})]
  IN  /\ pc[r] = "idle"
      /\ patches < MaxPatches
      /\ patches' = patches + 1
      /\ IF ~found
           THEN update_defect_raise(r, rq, Response(404, "defect not found", None, None, {}))
         ELSE IF NeedsDirectory(update_data)
           THEN /\ req' = [req EXCEPT ![r] = rq]
                /\ pc' = [pc EXCEPT ![r] = "validate_user"]
                /\ UNCHANGED <<db, done>>
         ELSE IF UpdateForbidden(defect, current_user)
           THEN update_defect_raise(r, rq, Response(403, "access denied", None, None, {}))
         ELSE update_defect_finish(r, rq)
      /\ UNCHANGED <<now, creates, created, listing, call, proxy, reports, attached>>

\* PATCH /defects/{defect_id} up to its first suspension point: the load, the
\* ownership check and, without a truthy assignee_id, the rest of the handler.
update_defect(r, defect_id, update_data, current_user) ==
  LET found == defect_id \in DOMAIN defects
      defect == IF found THEN defects[defect_id] ELSE NoDefect
      rq == [defect_id |-> defect_id, payload |-> update_data,
             caller |-> current_user, defect |-> defect, directory |-> None,
             response |-> Response(0, "none", None, None, {})]
  IN  /\ pc[r] = "idle"
      /\ patches < MaxPatches
      /\ patches' = patches + 1
      /\ IF ~found
           THEN update_defect_raise(r, rq, Response(404, "defect not found", None, None, {}))
         ELSE IF UpdateForbidden(defect, current_user)
           THEN update_defect_raise(r, rq, Response(403, "access denied", None, None, {}))
         ELSE IF NeedsDirectory(update_data)
           THEN /\ req' = [req EXCEPT ![r] = rq]
                /\ pc' = [pc EXCEPT ![r] = "validate_user"]
                /\ UNCHANGED <<db, done>>
         ELSE update_defect_finish(r, rq)
      /\ UNCHANGED <<now, creates, created, listing, call, proxy, reports, attached>>

\* A request is served by the first free handler.
FreeHandler == CHOOSE r \in Requests : pc[r] = "idle" /\ (r = "r1" \/ pc["r1"] # "idle")

UpdateDefect ==
  /\ \E r \in Requests : pc[r] = "idle"
  /\ \E defect_id \in 1..MaxCreates, update_data \in Payloads,
        current_user \in PatchCallers :
       update_defect(FreeHandler, defect_id, update_data, current_user)

\* The handler resumes when "await validate_user_exists" (line 283) completes
\* with the directory's answer, and runs to its end.
update_defect_resume(r, answer) ==
  LET checked == validate_user_exists(answer)
      rq == [req[r] EXCEPT !.directory = answer]
  IN  /\ pc[r] = "validate_user"
      /\ IF checked.code # 200
           THEN update_defect_raise(r, rq, checked)
           ELSE update_defect_finish(r, rq)
      /\ UNCHANGED <<now, creates, created, patches, listing, call, proxy, reports, attached>>

UpdateDefectResume ==
  \E r \in Requests, answer \in DirectoryAnswers : update_defect_resume(r, answer)

\* The members of a set of row positions in insertion order, and a sequence
\* reversed.
RECURSIVE Ascending(_)
Ascending(S) ==
  IF S = {} THEN <<>>
  ELSE LET m == CHOOSE x \in S : \A y \in S : x <= y
       IN  <<m>> \o Ascending(S \ {m})

Reverse(seq) == [i \in 1..Len(seq) |-> seq[Len(seq) + 1 - i]]

\* An ascending order.
RECURSIVE OrderByChangedAtAsc(_, _)
OrderByChangedAtAsc(rows, t) ==
  IF t < 0 THEN {<<>>}
  ELSE LET group == Ascending({i \in rows : history[i].changed_at = t})
       IN  { q \o p : p \in {group, Reverse(group)},
                      q \in OrderByChangedAtAsc(rows, t - 1) }

\* ORDER BY changed_at DESC over the rows (positions in history) of one defect.
\* The order of rows with equal changed_at is the storage engine's: the model
\* lets each group of equal rows come in insertion order or in reverse.
RECURSIVE OrderByChangedAtDesc(_, _)
OrderByChangedAtDesc(rows, t) ==
  IF t < 0 THEN {<<>>}
  ELSE LET group == Ascending({i \in rows : history[i].changed_at = t})
       IN  { p \o q : p \in {group, Reverse(group)},
                      q \in OrderByChangedAtDesc(rows, t - 1) }

\* .offset(skip).limit(limit)
OffsetLimit(seq, skip, limit) ==
  SubSeq(seq, skip + 1, IF Len(seq) < skip + limit THEN Len(seq) ELSE skip + limit)

\* The <<skip, limit>> query parameters tried (limit: ge=1, le=1000, default
\* 100): the default page and a second page of one row.
Pages == { <<0, 100>>, <<1, 1>> }

\* GET /defects/{defect_id}/history
get_defect_history(defect_id, skip, limit) ==
  /\ IF defect_id \notin DOMAIN defects
       THEN listing' = [defect_id |-> defect_id, skip |-> skip, limit |-> limit,
                        response |-> Response(404, "defect not found", None, None, {}),
                        data |-> <<>>]
       ELSE \E order \in OrderByChangedAtDesc(
                           {i \in 1..Len(history) : history[i].defect_id = defect_id},
                           MaxTime) :
              listing' = [defect_id |-> defect_id, skip |-> skip, limit |-> limit,
                          response |-> Ok,
                          data |-> OffsetLimit([i \in 1..Len(order) |-> history[order[i]]],
                                               skip, limit)]
  /\ UNCHANGED <<db, now, creates, created, patches, pc, req, done, call, proxy, reports, attached>>

GetDefectHistory ==
  \E defect_id \in 1..MaxCreates, page \in Pages :
    get_defect_history(defect_id, page[1], page[2])

NoListing ==
  [defect_id |-> 0, skip |-> 0, limit |-> 0,
   response |-> Response(0, "none", None, None, {}), data |-> <<>>]

\* ------------------------------------------- svc_gateway: request_with_retry

\* What one client.request can end in: an HTTP response (any status), a
\* httpx.TimeoutException, or another httpx.RequestError.
HttpResponses == {"200", "404", "500"}
TransportErrors == {"timeout", "request_error"}
AttemptOutcomes == HttpResponses \cup TransportErrors

\* retry_delay in tenths of a second (default 0.2).
RetryDelays == {2, 5}

NoCall ==
  [pc |-> "idle", retries |-> 0, retry_delay |-> 0, attempt |-> 0,
   outcomes |-> <<>>, sleeps |-> <<>>, result |-> None]

\* The call enters the loop "for attempt in range(retries + 1)".
request_with_retry(retries, retry_delay) ==
  /\ call.pc \in {"idle", "returned", "raised"}
  /\ call' = [NoCall EXCEPT !.pc = "request", !.retries = retries,
                            !.retry_delay = retry_delay]
  /\ UNCHANGED <<db, now, creates, created, patches, pc, req, done, listing,
               proxy, reports, attached>>

RequestWithRetry ==
  \E retries \in 0..MaxRetries, retry_delay \in RetryDelays :
    request_with_retry(retries, retry_delay)

\* A loop that also retries when the upstream answers 500.
attempt_request_retries_5xx(outcome) ==
  /\ call.pc = "request"
  /\ call' =
       IF outcome \in HttpResponses \ {"500"}
         THEN [call EXCEPT !.pc = "returned", !.result = outcome,
                           !.outcomes = Append(@, outcome)]
       ELSE IF call.attempt = call.retries
         THEN [call EXCEPT !.pc = IF outcome = "500" THEN "returned" ELSE "raised",
                           !.result = outcome, !.outcomes = Append(@, outcome)]
       ELSE [call EXCEPT !.pc = "sleep", !.outcomes = Append(@, outcome)]
  /\ UNCHANGED <<db, now, creates, created, patches, pc, req, done, listing,
               proxy, reports, attached>>

\* The call after one pass of the loop body (lines 39-54): a response of any
\* status is returned; a httpx.TimeoutException or another httpx.RequestError
\* is raised at the last attempt and slept on before.
after_attempt(outcome) ==
  IF outcome \notin TransportErrors
    THEN [call EXCEPT !.pc = "returned", !.result = outcome,
                      !.outcomes = Append(@, outcome)]
  ELSE IF call.attempt = call.retries
    THEN [call EXCEPT !.pc = "raised", !.result = outcome,
                      !.outcomes = Append(@, outcome)]
  ELSE [call EXCEPT !.pc = "sleep", !.outcomes = Append(@, outcome)]

\* One pass of the loop body (lines 39-54) up to the return, the raise or the sleep.
attempt_request(outcome) ==
  /\ call.pc = "request"
  /\ call' = after_attempt(outcome)
  /\ UNCHANGED <<db, now, creates, created, patches, pc, req, done, listing,
               proxy, reports, attached>>

AttemptRequest == \E outcome \in AttemptOutcomes : attempt_request(outcome)

\* A backoff that sleeps the same retry_delay after every failed attempt.
SleepDone_constant_delay ==
  /\ call.pc = "sleep"
  /\ call' = [call EXCEPT !.pc = "request",
                          !.sleeps = Append(@, call.retry_delay),
                          !.attempt = @ + 1]
  /\ UNCHANGED <<db, now, creates, created, patches, pc, req, done, listing,
               proxy, reports, attached>>

\* asyncio.sleep(retry_delay * (attempt + 1)) ends and the loop goes on.
SleepDone ==
  /\ call.pc = "sleep"
  /\ call' = [call EXCEPT !.pc = "request",
                          !.sleeps = Append(@, call.retry_delay * (call.attempt + 1)),
                          !.attempt = @ + 1]
  /\ UNCHANGED <<db, now, creates, created, patches, pc, req, done, listing,
               proxy, reports, attached>>

\* ------------------------------------------- svc_gateway: proxy_to_defects

\* The defaults of request_with_retry, which proxy_to_defects does not override:
\* retries = 2 and retry_delay = 0.2 s (in tenths of a second).
DefaultRetries == 2
DefaultRetryDelay == 2

\* The routes that go through proxy_to_defects, with the status code the route
\* declares for a returned value (201 for the POSTs, 204 for the DELETEs).
ProxyRoutes ==
  { [method |-> "POST", path |-> "/defects/", status_code |-> 201],
    [method |-> "GET", path |-> "/defects/{id}", status_code |-> 200],
    [method |-> "PATCH", path |-> "/defects/{id}", status_code |-> 200],
    [method |-> "DELETE", path |-> "/defects/{id}", status_code |-> 204] }

NoProxy ==
  [pc |-> "idle", route |-> [method |-> None, path |-> None, status_code |-> 0],
   response |-> [code |-> 0, detail |-> None]]

\* proxy_to_defects up to "await request_with_retry(...)" (lines 36-56).
proxy_to_defects(route) ==
  /\ proxy.pc # "waiting"
  /\ call.pc \in {"idle", "returned", "raised"}
  /\ proxy' = [NoProxy EXCEPT !.pc = "waiting", !.route = route]
  /\ call' = [NoCall EXCEPT !.pc = "request", !.retries = DefaultRetries,
                            !.retry_delay = DefaultRetryDelay]
  /\ UNCHANGED <<db, now, creates, created, patches, pc, req, done, listing,
               reports, attached>>

ProxyToDefects == \E route \in ProxyRoutes : proxy_to_defects(route)

\* A proxy that answers an upstream timeout with an empty success.
proxy_response_swallows_timeout(route, ended) ==
  IF ended.pc = "returned"
    THEN [code |-> route.status_code, detail |-> ended.result]
  ELSE IF ended.result = "timeout"
    THEN [code |-> route.status_code, detail |-> None]
  ELSE [code |-> 503, detail |-> "Defects service unavailable"]

\* Lines 57-67 of proxy_to_defects: the body of the upstream response is
\* returned under the route's status code; httpx.TimeoutException becomes 504
\* and any other httpx.RequestError 503.
proxy_response(route, ended) ==
  IF ended.pc = "returned"
    THEN [code |-> route.status_code, detail |-> ended.result]
  ELSE IF ended.result = "timeout"
    THEN [code |-> 504, detail |-> "Defects service timeout"]
  ELSE [code |-> 503, detail |-> "Defects service unavailable"]

\* request_with_retry has returned or raised and the proxy answers its client.
ProxyAnswer ==
  /\ proxy.pc = "waiting"
  /\ call.pc \in {"returned", "raised"}
  /\ proxy' = [proxy EXCEPT !.pc = "answered",
                            !.response = proxy_response(proxy.route, call)]
  /\ UNCHANGED <<db, now, creates, created, patches, pc, req, done, listing, call,
               reports, attached>>

\* ------------------------- svc_gateway in front of svc_defects: POST /defects/

\* How one attempt of the forwarded POST can go: the service handles it and the
\* response arrives; the service handles it but the response does not arrive
\* within the timeout of the attempt; the attempt times out before the service
\* has handled anything; the connection fails.
Deliveries == {"response", "response_lost", "timeout", "request_error"}

\* create_defect_proxy: one client POST /defects/ with its bearer token and
\* body enters proxy_to_defects, which starts request_with_retry with json=body
\* and the Authorization header of the client.
create_defect_proxy(current_user, body) ==
  /\ proxy.pc = "idle"
  /\ call.pc = "idle"
  /\ proxy' = [NoProxy EXCEPT !.pc = "waiting",
                              !.route = [method |-> "POST", path |-> "/defects/",
                                         status_code |-> 201]]
                 @@ [body |-> body, current_user |-> current_user]
  /\ call' = [NoCall EXCEPT !.pc = "request", !.retries = DefaultRetries,
                            !.retry_delay = DefaultRetryDelay]
  /\ UNCHANGED <<db, now, creates, created, patches, pc, req, done, listing,
               reports, attached>>

CreateDefectProxy ==
  \E current_user \in Callers, body \in CreateBodies :
    create_defect_proxy(current_user, body)

\* One attempt of the forwarded POST: client.request sends the same method, url,
\* headers and json again; when the request reaches the service, create_defect
\* runs and commits whatever becomes of the response.
attempt_create_defect(project_answer, user_answer, delivery) ==
  /\ proxy.pc = "waiting"
  /\ proxy.route.method = "POST"
  /\ call.pc = "request"
  /\ IF delivery \in {"response", "response_lost"}
       THEN /\ create_defect_handler(proxy.current_user, proxy.body,
                                     project_answer, user_answer)
            /\ creates' = creates + 1
            /\ call' = after_attempt(IF delivery = "response"
                                       THEN ToString(created'.response.code)
                                       ELSE "timeout")
       ELSE /\ call' = after_attempt(delivery)
            /\ UNCHANGED <<db, creates, created>>
  /\ UNCHANGED <<now, patches, pc, req, done, listing, proxy, reports, attached>>

AttemptCreateDefect ==
  \E project_answer \in RegistryAnswers, user_answer \in RegistryAnswers,
     delivery \in Deliveries :
    attempt_create_defect(project_answer, user_answer, delivery)

\* ------------------------------------------ svc_reports: DataFetcherService

\* What an upstream service can answer to the one client.get of a fetch: an
\* HTTP status, a httpx.TimeoutException or another httpx.RequestError.
UpstreamAnswers == {"200", "404", "422", "500", "timeout", "connect_error"}

\* The filter arguments of fetch_defects: each is None or a value.
FetchFilters ==
  [project_id : {None, "p1"}, status : {None, "NEW"}, priority : {None, "HIGH"},
   author_id : {None, "u1"}, assignee_id : {None, "u2"}]

\* The "data" lists a 200 answer can carry.
UpstreamData == { <<>>, <<"d1">>, <<"d1", "d2">> }

\* How a fetch ends: with a returned value, with an HTTPException, or with
\* another exception, which no handler of the service catches (the client gets
\* 500 Internal Server Error).
Returned(data) == [kind |-> "return", code |-> 200, detail |-> None, data |-> data]

Raised(code, detail) ==
  [kind |-> "HTTPException", code |-> code, detail |-> detail, data |-> None]

Unhandled(exception) ==
  [kind |-> exception, code |-> 500, detail |-> None, data |-> None]

\* The module fastapi.status, which the name "status" means at module level.
FastapiStatus == "fastapi.status"

\* raise HTTPException(status_code=status.HTTP_..., detail=...), where binding
\* is what the name "status" is bound to in the scope of the raise: the module
\* has the attribute; None, a str and a DefectStatus member have not, and the
\* attribute lookup raises AttributeError before any HTTPException exists.
raise_HTTPException(binding, code, detail) ==
  IF binding = FastapiStatus THEN Raised(code, detail) ELSE Unhandled("AttributeError")

\* fetch_defects: the parameter "status" (the status filter) hides the module
\* fastapi.status in the whole body of the function.
fetch_defects(filters, answer, data) ==
  LET status == filters.status
  IN  IF answer = "200" THEN Returned(data)
      ELSE IF answer = "timeout"
        THEN raise_HTTPException(status, 503, "Defects service timeout")
      ELSE IF answer = "connect_error"
        THEN raise_HTTPException(status, 503, "Defects service unavailable")
      ELSE raise_HTTPException(status, 503, "Defects service error: " \o answer)

\* fetch_project: 404 is the absent project, returned as None.
fetch_project(answer, data) ==
  LET status == FastapiStatus
  IN  IF answer = "200" THEN Returned(data)
      ELSE IF answer = "404" THEN Returned(None)
      ELSE IF answer = "timeout"
        THEN raise_HTTPException(status, 503, "Projects service timeout")
      ELSE IF answer = "connect_error"
        THEN raise_HTTPException(status, 503, "Projects service unavailable")
      ELSE raise_HTTPException(status, 503, "Projects service error: " \o answer)

\* fetch_projects
fetch_projects(answer, data) ==
  LET status == FastapiStatus
  IN  IF answer = "200" THEN Returned(data)
      ELSE IF answer = "timeout"
        THEN raise_HTTPException(status, 503, "Projects service timeout")
      ELSE IF answer = "connect_error"
        THEN raise_HTTPException(status, 503, "Projects service unavailable")
      ELSE raise_HTTPException(status, 503, "Projects service error: " \o answer)

NoFetch ==
  [op |-> None, filters |-> None, upstream |-> None, calls |-> 0,
   result |-> [kind |-> None, code |-> 0, detail |-> None, data |-> None]]

\* One call of a fetch operation: its single "await client.get", answered by
\* the upstream, and what the operation returns or raises.
Fetch(op, filters, answer, result) ==
  /\ fetched' = [op |-> op, filters |-> filters, upstream |-> answer, calls |-> 1,
                 result |-> result]
  /\ UNCHANGED <<db, now, creates, created, patches, pc, req, done, listing, call,
               proxy, exported, generated, attached>>

FetchDefects ==
  \E filters \in FetchFilters, answer \in UpstreamAnswers, data \in UpstreamData :
    Fetch("fetch_defects", filters, answer, fetch_defects(filters, answer, data))

FetchProject ==
  \E answer \in UpstreamAnswers :
    Fetch("fetch_project", [project_id |-> "p1"], answer,
          fetch_project(answer, [id |-> "p1", name |-> "Site"]))

FetchProjects ==
  \E manager_id \in {None, "u2"}, answer \in UpstreamAnswers :
    Fetch("fetch_projects", [manager_id |-> manager_id], answer,
          fetch_projects(answer, <<[id |-> "p1", name |-> "Site"]>>))

\* --------------------------------------------- svc_reports: export_report

\* MAX_EXPORT_ROWS of reports.py, and the "limit" fetch_defects asks for.
MAX_EXPORT_ROWS == 5000
FetchLimit == 10000

\* The defects the defects service holds for the caller that match the
\* project/status/priority filters of a request, counted by whether their
\* created_at date lies inside the requested date range or outside of it.
Held == [inside : {0, 5000, 5001, 10001}, outside : {0, 6000}]

\* The "data" of a 200 answer of an upstream that serves the page asked for:
\* the newest min(limit, held) defects. Which of them lie inside the date range
\* depends on their dates; the two extreme pages are tried.
UpstreamPage(limit, held) ==
  LET total == held.inside + held.outside
      n == IF total < limit THEN total ELSE limit
      lo == IF n > held.outside THEN n - held.outside ELSE 0
      hi == IF held.inside < n THEN held.inside ELSE n
  IN  { [inside |-> k, outside |-> n - k] : k \in {lo, hi} }

\* The detail of the 400 of export_report (lines 185-186).
ExportLimitDetail(found) ==
  "Export limit exceeded. Found " \o ToString(found)
    \o " defects, maximum allowed is " \o ToString(MAX_EXPORT_ROWS)

NoExport ==
  [role |-> None, format |-> None, status |-> None, bounded |-> FALSE,
   held |-> [inside |-> 0, outside |-> 0], defects_answer |-> None,
   projects_answer |-> None, candidates |-> 0,
   response |-> [kind |-> None, code |-> 0, detail |-> None, data |-> None]]

\* GET /reports/export. The query parameter "status" (None or a DefectStatus
\* member) hides the module fastapi.status in the handler; bounded tells
\* whether start_date or end_date is given; page is the data of the defects
\* service's answer when that is 200.
export_report(role, format, status, bounded, held, defects_answer, page, projects_answer) ==
  LET filters == [project_id |-> None, status |-> status, priority |-> None,
                  author_id |-> None, assignee_id |-> None]
      fetch == fetch_defects(filters, defects_answer, page)
      \* filter_by_date_range on the rows of the page
      candidates == IF fetch.kind # "return" THEN 0
                    ELSE IF bounded THEN page.inside
                    ELSE page.inside + page.outside
      projects == fetch_projects(projects_answer, <<[id |-> "p1", name |-> "Site"]>>)
      response ==
        IF role \notin {"MANAGER", "ADMIN", "SUPERVISOR", "CUSTOMER"}
          THEN Raised(403, "Access denied")
        ELSE IF fetch.kind # "return" THEN fetch
        ELSE IF candidates > MAX_EXPORT_ROWS
          THEN raise_HTTPException(status, 400, ExportLimitDetail(candidates))
        ELSE IF projects.kind # "return" THEN projects
        ELSE Returned([rows |-> candidates, format |-> format])
  IN  /\ exported' = [role |-> role, format |-> format, status |-> status,
                      bounded |-> bounded, held |-> held,
                      defects_answer |-> defects_answer,
                      projects_answer |-> projects_answer,
                      candidates |-> candidates, response |-> response]
      /\ UNCHANGED <<db, now, creates, created, patches, pc, req, done, listing, call,
                   proxy, fetched, generated, attached>>

\* The upstream answers tried for the two fetches of an export.
ExportAnswers == {"200", "500", "timeout"}

ExportReport ==
  \E role \in {"MANAGER", "ENGINEER"}, format \in {"csv", "xlsx"},
     status \in {None, "NEW"}, bounded \in BOOLEAN, held \in Held,
     defects_answer \in ExportAnswers, projects_answer \in {"200", "timeout"} :
    \E page \in UpstreamPage(FetchLimit, held) :
      export_report(role, format, status, bounded, held, defects_answer, page,
                    projects_answer)

\* --------------------- svc_reports: fetch_defects against the list endpoint

\* limit: int = Query(100, ge=1, le=1000) of get_defects.
LimitGe == 1
LimitLe == 1000

\* How many defects the defects service holds that the caller may see and
\* that match the filters of the request.
ListHeld == {0, 1, 1000, 1001, 10000}

\* GET /defects/?limit=..: the query validation of the list endpoint, which
\* answers 422 for a limit outside ge..le before the handler runs, and the
\* handler's page (skip 0): the status of the answer and how many rows its
\* "data" has.
get_defects(limit, matching) ==
  IF limit < LimitGe \/ limit > LimitLe
    THEN [status |-> "422", rows |-> 0]
    ELSE [status |-> "200", rows |-> IF matching < limit THEN matching ELSE limit]

\* fetch_defects with the defects service of this repository as its upstream:
\* the request carries params = {"limit": 10000} and the filters.
FetchDefectsFromService ==
  \E filters \in FetchFilters, matching \in ListHeld :
    LET answer == get_defects(FetchLimit, matching)
    IN  /\ fetched' =
             [op |-> "fetch_defects", filters |-> filters, upstream |-> answer.status,
              calls |-> 1, held |-> matching,
              result |-> fetch_defects(filters, answer.status, answer.rows)]
        /\ UNCHANGED <<db, now, creates, created, patches, pc, req, done, listing,
                       call, proxy, exported, generated, attached>>

\* --------------------------------------------- svc_reports: ReportGenerator

\* The most defects in one list handed to the generator.
MaxDefects == 3

\* total_seconds() / 86400.
SecondsPerDay == 86400

\* A timestamp string that datetime.fromisoformat refuses.
Invalid == "invalid"

\* What datetime.fromisoformat makes of the ISO timestamp strings of the model
\* (the "Z" replaced by "+00:00"): the calendar date, as the day of January
\* 2024, and the seconds into that day.
IsoStrings ==
  ("2024-01-01T00:00:00Z" :> [date |-> 1, seconds |-> 0])
    @@ ("2024-01-02T12:00:00Z" :> [date |-> 2, seconds |-> 43200])
    @@ ("2024-01-04T00:00:00Z" :> [date |-> 4, seconds |-> 0])

\* The created_at and updated_at of the defect dicts: missing (the key absent
\* or None), unparsable, or ISO strings, one of them not at midnight.
StampPairs ==
  { <<"2024-01-01T00:00:00Z", "2024-01-04T00:00:00Z">>,
    <<"2024-01-02T12:00:00Z", "2024-01-04T00:00:00Z">>,
    <<None, "2024-01-04T00:00:00Z">>, <<"2024-01-01T00:00:00Z", None>>,
    <<Invalid, "2024-01-04T00:00:00Z">>, <<"2024-01-01T00:00:00Z", Invalid>> }

\* The defect dicts: the keys the generator's computations read.
DefectDicts ==
  { [status |-> s, created_at |-> p[1], updated_at |-> p[2]] :
      s \in DefectStatus \cup {None}, p \in StampPairs }

DefectLists == UNION { [1..n -> DefectDicts] : n \in 0..MaxDefects }

\* The date objects of the model, by the day of January 2024.
Dates ==
  ("2024-01-01" :> 1) @@ ("2024-01-02" :> 2) @@ ("2024-01-03" :> 3)

\* The start_date and end_date arguments: None or a date.
StartDates == {None, "2024-01-01", "2024-01-02"}
EndDates == {None, "2024-01-02", "2024-01-03"}

ValueError == "ValueError"

\* Whether datetime.fromisoformat(s.replace("Z", "+00:00")) raises ValueError.
fromisoformat_raises(s) == s \notin DOMAIN IsoStrings

\* datetime.fromisoformat(s.replace("Z", "+00:00")) of a string it accepts: the
\* datetime, as its date and the seconds since the start of January 2024.
fromisoformat(s) ==
  [date |-> IsoStrings[s].date,
   timestamp |-> (IsoStrings[s].date - 1) * SecondsPerDay + IsoStrings[s].seconds]

\* The loop of filter_by_date_range over the defects not yet visited.
RECURSIVE filter_loop(_, _, _, _)
filter_loop(rest, start_date, end_date, filtered) ==
  IF rest = <<>> THEN Returned(filtered)
  ELSE
    LET defect == Head(rest)
        created_at_str == defect.created_at
    IN IF created_at_str = None
       THEN filter_loop(Tail(rest), start_date, end_date, filtered)
       ELSE IF fromisoformat_raises(created_at_str)
       THEN Unhandled(ValueError)
       ELSE
         LET created_date == fromisoformat(created_at_str).date
         IN IF start_date # None /\ created_date < Dates[start_date]
            THEN filter_loop(Tail(rest), start_date, end_date, filtered)
            ELSE IF end_date # None /\ created_date > Dates[end_date]
            THEN filter_loop(Tail(rest), start_date, end_date, filtered)
            ELSE filter_loop(Tail(rest), start_date, end_date,
                             Append(filtered, defect))

filter_by_date_range(defects_, start_date, end_date) ==
  IF start_date = None /\ end_date = None
  THEN Returned(defects_)
  ELSE filter_loop(defects_, start_date, end_date, <<>>)

\* counts[status] += 1 on a dict that keeps its keys in insertion order.
Increment(counts, key) ==
  IF \E i \in 1..Len(counts) : counts[i].status = key
  THEN [i \in 1..Len(counts) |->
          IF counts[i].status = key
          THEN [counts[i] EXCEPT !.count = @ + 1] ELSE counts[i]]
  ELSE Append(counts, [status |-> key, count |-> 1])

RECURSIVE count_statuses_with_missing(_, _)
count_statuses_with_missing(rest, counts) ==
  IF rest = <<>> THEN counts
  ELSE count_statuses_with_missing(Tail(rest), Increment(counts, Head(rest).status))

calculate_status_distribution_counts_missing(defects_) ==
  count_statuses_with_missing(defects_, <<>>)

\* The loop of calculate_status_distribution.
RECURSIVE count_statuses(_, _)
count_statuses(rest, counts) ==
  IF rest = <<>> THEN counts
  ELSE LET status == Head(rest).status
       IN count_statuses(Tail(rest),
                         IF status # None THEN Increment(counts, status) ELSE counts)

\* calculate_status_distribution: the StatusDistribution entries, in the order
\* in which the statuses first occur.
calculate_status_distribution(defects_) == count_statuses(defects_, <<>>)

\* The loop of calculate_average_resolution_time: resolution_times, in seconds.
RECURSIVE resolution_times_of(_, _, _)
resolution_times_of(rest, resolution_times, statuses) ==
  IF rest = <<>> THEN resolution_times
  ELSE
    LET defect == Head(rest)
        created_at_str == defect.created_at
        updated_at_str == defect.updated_at
    IN IF defect.status \notin statuses
       THEN resolution_times_of(Tail(rest), resolution_times, statuses)
       ELSE IF created_at_str = None \/ updated_at_str = None
       THEN resolution_times_of(Tail(rest), resolution_times, statuses)
       ELSE IF \/ fromisoformat_raises(created_at_str)
               \/ fromisoformat_raises(updated_at_str)
       THEN resolution_times_of(Tail(rest), resolution_times, statuses)
       ELSE resolution_times_of(
              Tail(rest),
              Append(resolution_times,
                     fromisoformat(updated_at_str).timestamp
                       - fromisoformat(created_at_str).timestamp),
              statuses)

RECURSIVE sum(_)
sum(numbers) == IF numbers = <<>> THEN 0 ELSE Head(numbers) + sum(Tail(numbers))

\* An Optional[float]: None, or the float num / den.
NoneFloat == [none |-> TRUE, num |-> 0, den |-> 1]

Float(num, den) == [none |-> FALSE, num |-> num, den |-> den]

\* "if not resolution_times: return None", and sum(resolution_times) /
\* len(resolution_times) in days, as the fraction of two integers.
mean_days(resolution_times) ==
  IF resolution_times = <<>> THEN NoneFloat
  ELSE Float(sum(resolution_times), SecondsPerDay * Len(resolution_times))

calculate_average_resolution_time_any_status(defects_) ==
  mean_days(resolution_times_of(defects_, <<>>, DefectStatus \cup {None}))

calculate_average_resolution_time(defects_) ==
  mean_days(resolution_times_of(defects_, <<>>, {"CLOSED"}))

\* sum(1 for d in defects if d.get("status") in statuses).
count_status_in(defects_, statuses) ==
  Cardinality({ i \in 1..Len(defects_) : defects_[i].status \in statuses })

summary_counts_canceled_as_open(defects_) ==
  [closed_defects_count |-> count_status_in(defects_, {"CLOSED"}),
   open_defects_count |->
     count_status_in(defects_, {"NEW", "IN_PROGRESS", "ON_REVIEW", "CANCELED"})]

\* closed_count and open_count of generate_summary_report.
summary_counts(defects_) ==
  [closed_defects_count |-> count_status_in(defects_, {"CLOSED"}),
   open_defects_count |->
     count_status_in(defects_, {"NEW", "IN_PROGRESS", "ON_REVIEW"})]

\* generate_summary_report without a project: the DefectSummaryReport (the
\* defect dicts of the model carry no priority, and priority_distribution,
\* filters_applied and generated_at are left out of the report).
generate_summary_report(defects_) ==
  [total_defects |-> Len(defects_),
   status_distribution |-> calculate_status_distribution(defects_),
   average_resolution_time_days |-> calculate_average_resolution_time(defects_),
   closed_defects_count |-> summary_counts(defects_).closed_defects_count,
   open_defects_count |-> summary_counts(defects_).open_defects_count]

NoReport == [op |-> "none"]

\* The defect list handed to the generator, before any of its functions ran.
GeneratorInput(defects_) == [op |-> "input", defects |-> defects_]

FilterByDateRange ==
  /\ generated.op = "input"
  /\ \E start_date \in StartDates, end_date \in EndDates :
       generated' =
         [op |-> "filter_by_date_range", defects |-> generated.defects,
          start_date |-> start_date, end_date |-> end_date,
          result |-> filter_by_date_range(generated.defects, start_date, end_date)]
  /\ UNCHANGED <<defects, history, nextId, now, creates, created, patches, pc, req,
                 done, updates, listing, call, proxy, fetched, exported, attached>>

CalculateStatusDistribution ==
  /\ generated.op = "input"
  /\ generated' =
       [op |-> "calculate_status_distribution", defects |-> generated.defects,
        result |-> calculate_status_distribution(generated.defects)]
  /\ UNCHANGED <<defects, history, nextId, now, creates, created, patches, pc, req,
                 done, updates, listing, call, proxy, fetched, exported, attached>>

CalculateAverageResolutionTime ==
  /\ generated.op = "input"
  /\ generated' =
       [op |-> "calculate_average_resolution_time", defects |-> generated.defects,
        result |-> calculate_average_resolution_time(generated.defects)]
  /\ UNCHANGED <<defects, history, nextId, now, creates, created, patches, pc, req,
                 done, updates, listing, call, proxy, fetched, exported, attached>>

GenerateSummaryReport ==
  /\ generated.op = "input"
  /\ generated' =
       [op |-> "generate_summary_report", defects |-> generated.defects,
        result |-> generate_summary_report(generated.defects)]
  /\ UNCHANGED <<defects, history, nextId, now, creates, created, patches, pc, req,
                 done, updates, listing, call, proxy, fetched, exported, attached>>

\* ------------------------- svc_defects: comments, attachments, delete_defect

\* The most comments, and the most attachments, the tables hold at once.
MaxComments == 1
MaxAttachments == 1

\* The most PATCH requests made while comments and attachments are in play.
MaxAttachedPatches == 1

MAX_FILE_SIZE == 10485760

ALLOWED_CONTENT_TYPES ==
  {"image/jpeg", "image/jpg", "image/png", "image/gif", "image/webp", "application/pdf"}

\* The uploaded files: the size read and the content type sent.
Files ==
  { [file_size |-> 1, content_type |-> "image/png"],
    [file_size |-> MAX_FILE_SIZE + 1, content_type |-> "image/png"],
    [file_size |-> 1, content_type |-> "text/plain"] }

\* The callers that post comments, and those that upload files.
CommentCallers == { c \in Callers : c.role = "ENGINEER" }
UploadCallers == { c \in Callers : c.user_id = "u1" }

\* The id of a new row: one that no row of the table has.
FreshId(rows) ==
  CHOOSE n \in 1..(Len(rows) + 1) :
    /\ \A i \in 1..Len(rows) : rows[i].id # n
    /\ \A k \in 1..(n - 1) : \E i \in 1..Len(rows) : rows[i].id = k

\* The rows of a table without the row of the given id.
WithoutRow(rows, id) == SelectSeq(rows, LAMBDA row : row.id # id)

\* POST /comments/
create_comment(comment_data, current_user) ==
  /\ IF comment_data.defect_id \notin DOMAIN defects
       THEN UNCHANGED comments
       ELSE comments' =
              Append(comments,
                     [id |-> FreshId(comments), defect_id |-> comment_data.defect_id,
                      author_id |-> current_user.user_id, text |-> comment_data.text])
  /\ UNCHANGED <<db, now, creates, created, patches, pc, req, done, listing, call,
                 proxy, reports, attachments, removed>>

CreateComment ==
  /\ Len(comments) < MaxComments
  /\ \E defect_id \in 1..MaxCreates, current_user \in CommentCallers :
       create_comment([defect_id |-> defect_id, text |-> "c1"], current_user)

\* PATCH /comments/{comment_id}
update_comment(comment_id, text, current_user) ==
  /\ IF \A i \in 1..Len(comments) : comments[i].id # comment_id
       THEN UNCHANGED comments
       ELSE LET i == CHOOSE j \in 1..Len(comments) : comments[j].id = comment_id
            IN IF comments[i].author_id # current_user.user_id
               THEN UNCHANGED comments
               ELSE comments' = [comments EXCEPT ![i].text = text]
  /\ UNCHANGED <<db, now, creates, created, patches, pc, req, done, listing, call,
                 proxy, reports, attachments, removed>>

UpdateComment ==
  \E comment_id \in 1..MaxComments, current_user \in PatchCallers :
    update_comment(comment_id, "c2", current_user)

\* DELETE /comments/{comment_id}
delete_comment(comment_id, current_user) ==
  /\ IF \A i \in 1..Len(comments) : comments[i].id # comment_id
       THEN UNCHANGED comments
       ELSE LET i == CHOOSE j \in 1..Len(comments) : comments[j].id = comment_id
            IN IF /\ comments[i].author_id # current_user.user_id
                  /\ current_user.role \notin {"MANAGER", "ADMIN"}
               THEN UNCHANGED comments
               ELSE comments' = WithoutRow(comments, comment_id)
  /\ UNCHANGED <<db, now, creates, created, patches, pc, req, done, listing, call,
                 proxy, reports, attachments, removed>>

DeleteComment ==
  \E comment_id \in 1..MaxComments, current_user \in Callers :
    delete_comment(comment_id, current_user)

\* POST /attachments/
upload_attachment(defect_id, file, current_user) ==
  /\ IF current_user.role \in {"SUPERVISOR", "CUSTOMER"}
       THEN UNCHANGED attachments
       ELSE IF defect_id \notin DOMAIN defects
       THEN UNCHANGED attachments
       ELSE IF file.file_size > MAX_FILE_SIZE
       THEN UNCHANGED attachments
       ELSE IF file.content_type \notin ALLOWED_CONTENT_TYPES
       THEN UNCHANGED attachments
       ELSE attachments' =
              Append(attachments,
                     [id |-> FreshId(attachments), defect_id |-> defect_id,
                      file_size |-> file.file_size, content_type |-> file.content_type,
                      uploaded_by_id |-> current_user.user_id])
  /\ UNCHANGED <<db, now, creates, created, patches, pc, req, done, listing, call,
                 proxy, reports, comments, removed>>

UploadAttachment ==
  /\ Len(attachments) < MaxAttachments
  /\ \E defect_id \in 1..MaxCreates, file \in Files, current_user \in UploadCallers :
       upload_attachment(defect_id, file, current_user)

\* DELETE /attachments/{attachment_id}
delete_attachment(attachment_id, current_user) ==
  /\ IF \A i \in 1..Len(attachments) : attachments[i].id # attachment_id
       THEN UNCHANGED attachments
       ELSE LET i == CHOOSE j \in 1..Len(attachments) : attachments[j].id = attachment_id
            IN IF /\ attachments[i].uploaded_by_id # current_user.user_id
                  /\ current_user.role \notin {"MANAGER", "ADMIN"}
               THEN UNCHANGED attachments
               ELSE attachments' = WithoutRow(attachments, attachment_id)
  /\ UNCHANGED <<db, now, creates, created, patches, pc, req, done, listing, call,
                 proxy, reports, comments, removed>>

DeleteAttachment ==
  \E attachment_id \in 1..MaxAttachments, current_user \in Callers :
    delete_attachment(attachment_id, current_user)

NoDelete ==
  [defect_id |-> 0, caller |-> NoCaller,
   response |-> [kind |-> "none", code |-> 0, detail |-> None, data |-> None]]

\* The rows that the backrefs history_entries, comments and attachments of a
\* defect collect.
HasChildren(defect_id) ==
  \/ \E i \in 1..Len(history) : history[i].defect_id = defect_id
  \/ \E i \in 1..Len(comments) : comments[i].defect_id = defect_id
  \/ \E i \in 1..Len(attachments) : attachments[i].defect_id = defect_id

delete_defect_loses_history(defect_id, current_user) ==
  /\ history' = SelectSeq(history, LAMBDA h : h.defect_id # defect_id)
  /\ removed' = [defect_id |-> defect_id, caller |-> current_user,
                 response |-> Unhandled("IntegrityError")]
  /\ UNCHANGED <<defects, nextId, updates, comments, attachments, now, creates,
                 created, patches, pc, req, done, listing, call, proxy, reports>>

\* DELETE /defects/{defect_id}. db.delete(defect) and db.commit(): the three
\* backrefs carry no delete cascade and no passive_deletes, so the flush sets
\* the defect_id of every child row to NULL before it deletes the defect; the
\* columns are NOT NULL, the UPDATE fails with IntegrityError, which the handler
\* does not catch, and the transaction is rolled back.
delete_defect(defect_id, current_user) ==
  LET answer(response) ==
        /\ removed' = [defect_id |-> defect_id, caller |-> current_user,
                       response |-> response]
        /\ UNCHANGED <<db, comments, attachments>>
  IN /\ IF defect_id \notin DOMAIN defects
          THEN answer(Raised(404, "Defect not found"))
          ELSE IF /\ current_user.role = "ENGINEER"
                  /\ defects[defect_id].author_id # current_user.user_id
          THEN answer(Raised(403, "Access denied. You can only delete defects you created."))
          ELSE IF current_user.role \in {"SUPERVISOR", "CUSTOMER"}
          THEN answer(Raised(403, "Access denied. You cannot delete defects."))
          ELSE IF HasChildren(defect_id)
          THEN answer(Unhandled("IntegrityError"))
          ELSE /\ defects' = [id \in DOMAIN defects \ {defect_id} |-> defects[id]]
               /\ removed' = [defect_id |-> defect_id, caller |-> current_user,
                              response |-> Returned("Defect deleted successfully")]
               /\ UNCHANGED <<history, nextId, updates, comments, attachments>>
     /\ UNCHANGED <<now, creates, created, patches, pc, req, done, listing, call,
                    proxy, reports>>

DeleteDefect ==
  \E defect_id \in 1..MaxCreates, current_user \in Callers :
    delete_defect(defect_id, current_user)

\* ------------------------------------------------------------ specifications

Init ==
  /\ defects = <<>>
  /\ history = <<>>
  /\ nextId = 1
  /\ now = 0
  /\ creates = 0
  /\ created = NoCreate
  /\ patches = 0
  /\ pc = [r \in Requests |-> "idle"]
  /\ req = [r \in Requests |-> NoRequest]
  /\ done = NoRequest
  /\ updates = <<>>
  /\ listing = NoListing
  /\ call = NoCall
  /\ proxy = NoProxy
  /\ fetched = NoFetch
  /\ exported = NoExport
  /\ generated = NoReport
  /\ comments = <<>>
  /\ attachments = <<>>
  /\ removed = NoDelete

\* The defects service under concurrent requests.
Next ==
  \/ Tick
  \/ CreateDefect
  \/ UpdateDefect
  \/ UpdateDefectResume

Spec == Init /\ [][Next]_vars

\* The same with the history read by clients.
NextRead ==
  \/ Next
  \/ GetDefectHistory

SpecRead == Init /\ [][NextRead]_vars

\* The defects service with one PATCH at a time: a PATCH is accepted only when
\* no handler is suspended in another one.
SerialUpdateDefect ==
  /\ \A r \in Requests : pc[r] = "idle"
  /\ UpdateDefect

NextSerial ==
  \/ Tick
  \/ CreateDefect
  \/ SerialUpdateDefect
  \/ UpdateDefectResume

SpecSerial == Init /\ [][NextSerial]_vars

\* One request_with_retry call after another.
NextRetry ==
  \/ RequestWithRetry
  \/ AttemptRequest
  \/ SleepDone

SpecRetry == Init /\ [][NextRetry]_vars

\* The event loop runs every attempt to its end (each has a timeout) and ends
\* every sleep.
SpecRetryFair == SpecRetry /\ WF_vars(AttemptRequest) /\ WF_vars(SleepDone)

\* The gateway proxying one request after another to the defects service.
NextProxy ==
  \/ ProxyToDefects
  \/ AttemptRequest
  \/ SleepDone
  \/ ProxyAnswer

SpecProxy == Init /\ [][NextProxy]_vars

\* Every attempt ends (it has a timeout), every sleep ends, and the handler
\* goes on when request_with_retry has ended.
SpecProxyFair ==
  SpecProxy /\ WF_vars(AttemptRequest) /\ WF_vars(SleepDone) /\ WF_vars(ProxyAnswer)

\* One client POST /defects/ through the gateway to the defects service.
NextProxiedCreate ==
  \/ CreateDefectProxy
  \/ AttemptCreateDefect
  \/ SleepDone
  \/ ProxyAnswer

SpecProxiedCreate == Init /\ [][NextProxiedCreate]_vars

\* The Data Fetcher called for one operation after another.
NextFetch ==
  \/ FetchDefects
  \/ FetchProject
  \/ FetchProjects

SpecFetch == Init /\ [][NextFetch]_vars

\* The reports service answering one export request after another.
NextExport == ExportReport

\* The reports service fetching defects from the defects service.
NextFetchList == FetchDefectsFromService

SpecFetchList == Init /\ [][NextFetchList]_vars

SpecExport == Init /\ [][NextExport]_vars

\* The generator's functions applied to a list of defect dicts: any list of at
\* most MaxDefects dicts is the input, and one function is applied to it.
InitReport ==
  /\ defects = <<>>
  /\ history = <<>>
  /\ nextId = 1
  /\ now = 0
  /\ creates = 0
  /\ created = NoCreate
  /\ patches = 0
  /\ pc = [r \in Requests |-> "idle"]
  /\ req = [r \in Requests |-> NoRequest]
  /\ done = NoRequest
  /\ updates = <<>>
  /\ listing = NoListing
  /\ call = NoCall
  /\ proxy = NoProxy
  /\ fetched = NoFetch
  /\ exported = NoExport
  /\ generated \in { GeneratorInput(ds) : ds \in DefectLists }
  /\ comments = <<>>
  /\ attachments = <<>>
  /\ removed = NoDelete

NextReport ==
  \/ FilterByDateRange
  \/ CalculateStatusDistribution
  \/ CalculateAverageResolutionTime
  \/ GenerateSummaryReport

SpecReport == InitReport /\ [][NextReport]_vars

\* The defects service with its comments and attachments, the history read by
\* clients, and defects deleted; one PATCH at a time, MaxAttachedPatches in
\* all, and all the requests at one reading of the clock.
AttachedUpdateDefect ==
  /\ patches < MaxAttachedPatches
  /\ SerialUpdateDefect

NextAttached ==
  \/ CreateDefect
  \/ AttachedUpdateDefect
  \/ UpdateDefectResume
  \/ GetDefectHistory
  \/ CreateComment
  \/ UpdateComment
  \/ DeleteComment
  \/ UploadAttachment
  \/ DeleteAttachment
  \/ DeleteDefect

SpecAttached == Init /\ [][NextAttached]_vars

\* ------------------------------------------------------------------- claims

\* The legality table as the specification words it (section 4.1).
LegalEdges ==
  { <<"NEW", "IN_PROGRESS">>, <<"NEW", "CANCELED">>,
    <<"IN_PROGRESS", "ON_REVIEW">>, <<"IN_PROGRESS", "CANCELED">>,
    <<"ON_REVIEW", "CLOSED">>, <<"ON_REVIEW", "IN_PROGRESS">>,
    <<"ON_REVIEW", "CANCELED">> }

FinalStatuses == {"CLOSED", "CANCELED"}

Legal(current, proposed) ==
  \/ current = proposed
  \/ current \notin FinalStatuses /\ <<current, proposed>> \in LegalEdges

\* A step in which a PATCH is answered: one that ran without suspension, or a
\* suspended handler that resumed.
Answered ==
  \/ patches' # patches /\ pc' = pc
  \/ \E r \in Requests : pc[r] = "validate_user" /\ pc'[r] = "idle"

\* The PATCH answered reached the status validation: the defect was found, the
\* caller allowed, and the directory (when called) answered 200.
ReachedValidation(rq) ==
  /\ rq.defect_id \in DOMAIN defects
  /\ ~UpdateForbidden(rq.defect, rq.caller)
  /\ rq.directory \in {None, "200"}

TrackedSet == { tracked_fields[i] : i \in DOMAIN tracked_fields }

\* C1: check_valid_status_transition accepts a pair (current, proposed) of
\* statuses if and only if current = proposed, or current is not CLOSED/CANCELED
\* and the pair is in the fixed table; this for all 25 pairs, and for every PATCH
\* whose status reached the validator (answered 200 iff legal, 400 otherwise).
C1_ValidatorMatchesTable ==
  /\ \A current \in DefectStatus, proposed \in DefectStatus :
       (check_valid_status_transition(current, proposed).code = 200)
         <=> Legal(current, proposed)
  /\ (done.payload.status # Unset /\ done.response.code \in {200, 400})
       => ((done.response.code = 200)
             <=> Legal(done.defect.status, done.payload.status))

\* A PATCH IN_PROGRESS -> NEW was rejected and a PATCH ON_REVIEW -> IN_PROGRESS
\* is what the table allows in the other direction.
C1_Witness ==
  /\ done.response.code = 400
  /\ done.defect.status = "IN_PROGRESS"
  /\ done.payload.status = "NEW"

\* C2: with one PATCH after another, every change of a persisted status is an
\* edge of the legality table, and a persisted CLOSED or CANCELED never changes.
C2_StatusFollowsTable ==
  [][\A d \in DOMAIN defects :
       /\ d \in DOMAIN defects'
       /\ defects[d].status \in FinalStatuses
            => defects'[d].status = defects[d].status
       /\ defects'[d].status # defects[d].status
            => <<defects[d].status, defects'[d].status>> \in LegalEdges]_vars

\* A PATCH on a CLOSED defect succeeded (it changed other fields) and the defect
\* is still CLOSED.
C2_Witness ==
  /\ done.response.code = 200
  /\ done.defect.status = "CLOSED"
  /\ done.payload.priority = "HIGH"
  /\ defects[done.defect_id].status = "CLOSED"
  /\ defects[done.defect_id].priority = "HIGH"

\* C3: a PATCH whose status is an illegal transition from the status the handler
\* loaded, and that reaches the validation, is answered 400 and persists
\* nothing: no history row, no field of any defect, updated_at as it was.
C3_IllegalTransitionAborts ==
  [][(/\ Answered
      /\ done'.payload.status # Unset
      /\ ~Legal(done'.defect.status, done'.payload.status)
      /\ ReachedValidation(done'))
       => /\ done'.response.code = 400
          /\ UNCHANGED <<defects, history>>]_vars

\* NEW -> CLOSED with a valid priority and description in the same payload was
\* refused, and the defect is exactly as loaded.
C3_Witness ==
  /\ done.response.code = 400
  /\ done.defect.status = "NEW"
  /\ done.payload.status = "CLOSED"
  /\ done.payload.priority = "HIGH"
  /\ done.defect.priority = "LOW"
  /\ defects[done.defect_id] = done.defect
  /\ now > done.defect.updated_at

\* C4: under concurrent PATCHes every committed status change is a legal
\* transition from the status persisted just before the commit, so that a defect
\* never leaves CLOSED or CANCELED.
C4_CommitsLegalFromPersisted ==
  [][\A d \in DOMAIN defects :
       Legal(defects[d].status, defects'[d].status)]_vars

\* C5: with one PATCH after another, a successful PATCH appends exactly one
\* history row for each tracked field of the payload that differs from the
\* persisted value, old_value and new_value being the string forms (null for an
\* absent value) of the persisted and of the payload value, and no other row.
C5_HistoryPerChangedField ==
  [][(Answered /\ done'.response.code = 200)
       => LET d == done'.defect_id
              stored == defects[d]
              payload == done'.payload
              added == SubSeq(history', Len(history) + 1, Len(history'))
              differs(f) == payload[f] # Unset /\ payload[f] # stored[f]
              text(v) == IF v = None THEN None ELSE PyStr(v)
          IN  /\ Len(history') >= Len(history)
              /\ SubSeq(history', 1, Len(history)) = history
              /\ \A f \in TrackedSet :
                   Cardinality({i \in DOMAIN added : added[i].field_name = f})
                     = IF differs(f) THEN 1 ELSE 0
              /\ \A i \in DOMAIN added :
                   /\ added[i].field_name \in TrackedSet
                   /\ added[i].defect_id = d
                   /\ added[i].changed_by_id = done'.caller.user_id
                   /\ added[i].old_value = text(stored[added[i].field_name])
                   /\ added[i].new_value = text(payload[added[i].field_name])]_vars

\* ON_REVIEW -> CLOSED with a new priority and a new description added the two
\* rows of status and priority to the creation row, and none for description.
C5_Witness ==
  /\ done.response.code = 200
  /\ done.defect.status = "ON_REVIEW"
  /\ done.payload.status = "CLOSED"
  /\ done.payload.description = "x2"
  /\ done.defect.description = "x1"
  /\ Len(history) = 3
  /\ history[2].field_name = "status"
  /\ history[2].old_value = "DefectStatus.ON_REVIEW"
  /\ history[3].field_name = "priority"
  /\ history[3].new_value = "DefectPriority.HIGH"

\* The rows of history that belong to defect d.
HistoryOf(d) == { i \in 1..Len(history) : history[i].defect_id = d }

\* A step that answers a GET /defects/{id}/history with a page of rows.
Listed == listing' # listing /\ listing'.response.code = 200

SortedByChangedAtDesc(data) ==
  \A i \in DOMAIN data, j \in DOMAIN data :
    i < j => data[i].changed_at >= data[j].changed_at

Min(a, b) == IF a < b THEN a ELSE b

ReissuesLoaded(rq) ==
  \A f \in UpdateFields : rq.payload[f] # Unset => rq.payload[f] = rq.defect[f]

\* What a PATCH that re-issues the current values does when it succeeds: no
\* history row, no field changed, updated_at set to the current time.
NoOpEffect(d) ==
  /\ history' = history
  /\ \A f \in DOMAIN defects[d] : f # "updated_at" => defects'[d][f] = defects[d][f]
  /\ defects'[d].updated_at = now

C8_CreatePersistsDefectAndOneEntry ==
  [][creates' # creates
       => IF created'.response.code = 201
            THEN LET d == created'.id
                 IN  /\ d \notin DOMAIN defects
                     /\ DOMAIN defects' = DOMAIN defects \cup {d}
                     /\ \A e \in DOMAIN defects : defects'[e] = defects[e]
                     /\ defects'[d].author_id = created'.caller.user_id
                     /\ defects'[d].status = created'.status
                     /\ Len(history') = Len(history) + 1
                     /\ SubSeq(history', 1, Len(history)) = history
                     /\ history'[Len(history')].defect_id = d
                     /\ history'[Len(history')].field_name = "created"
                     /\ history'[Len(history')].old_value = None
                     /\ history'[Len(history')].changed_by_id = created'.caller.user_id
            ELSE UNCHANGED <<defects, history>>]_vars

\* A create whose body names another author than the caller succeeded, and the
\* defect is the caller's.
C8_Witness ==
  /\ created.response.code = 201
  /\ created.author_id = "u2"
  /\ created.caller.user_id = "u1"
  /\ defects[created.id].author_id = "u1"
  /\ Cardinality({ i \in HistoryOf(created.id) : history[i].field_name = "created" }) = 1

\* C9: when the directory, called for the assignee_id of a PATCH, answers 404,
\* another status than 200, times out or cannot be connected, the PATCH fails
\* (404 for the absent user, 503 otherwise) and persists nothing; nothing is
\* persisted either while the handler waits for the directory.
C9_DirectoryFailureAborts ==
  [][/\ (Answered /\ done'.directory \notin {None, "200"})
          => /\ NeedsDirectory(done'.payload)
             /\ done'.response.code = IF done'.directory = "404" THEN 404 ELSE 503
             /\ UNCHANGED <<defects, history>>
     /\ \A r \in Requests :
          (pc[r] = "idle" /\ pc'[r] = "validate_user")
            => UNCHANGED <<defects, history>>]_vars

\* A PATCH with a new assignee and a legal status change was refused with 503
\* after a timeout of the directory, and the defect is exactly as loaded.
C9_Witness ==
  /\ done.directory = "timeout"
  /\ done.response.code = 503
  /\ done.payload.assignee_id = "u1"
  /\ done.payload.status = "IN_PROGRESS"
  /\ done.defect.status = "NEW"
  /\ done.defect.assignee_id = None
  /\ defects[done.defect_id] = done.defect
  /\ Len(history) = 1

\* C10: a call of request_with_retry makes at least one and at most retries + 1
\* attempts; every attempt but the last failed with a timeout or another
\* transport error; an attempt that yields an HTTP response, whatever its
\* status, is the last one and its response is returned; the last error is
\* raised only after retries + 1 failures; and every call ends.
C10_Attempts ==
  LET n == Len(call.outcomes)
  IN  /\ n <= call.retries + 1
      /\ \A i \in 1..n :
           /\ i < n => call.outcomes[i] \in TransportErrors
           /\ call.outcomes[i] \in HttpResponses
                => i = n /\ call.pc = "returned" /\ call.result = call.outcomes[i]
      /\ call.pc \in {"returned", "raised"} => n >= 1
      /\ call.pc = "returned" => call.outcomes[n] \in HttpResponses
      /\ call.pc = "raised"
           => /\ n = call.retries + 1
              /\ call.outcomes[n] \in TransportErrors
              /\ call.result = call.outcomes[n]
      /\ call.pc \in {"request", "sleep"} => n = call.attempt + (IF call.pc = "sleep" THEN 1 ELSE 0)

C10_BoundedRetries ==
  /\ []C10_Attempts
  /\ (call.pc \in {"request", "sleep"}) ~> (call.pc \in {"returned", "raised"})

\* With retries = 2, two timeouts and then a 500: the 500 is returned by the
\* third attempt.
C10_Witness ==
  /\ call.pc = "returned"
  /\ call.retries = 2
  /\ call.outcomes = <<"timeout", "request_error", "500">>
  /\ call.result = "500"

\* C11: the delay slept after the failed attempt of index i (i < retries) is
\* retry_delay * (i + 1); after the failed attempt of index retries no delay is
\* slept and the error of that attempt is what the call raises.
C11_LinearBackoff ==
  LET n == Len(call.outcomes)
      k == Len(call.sleeps)
  IN  /\ \A i \in 1..k : call.sleeps[i] = call.retry_delay * i
      /\ k <= call.retries
      /\ call.pc = "request" => k = n
      /\ call.pc = "sleep"
           => /\ k = n - 1
              /\ n <= call.retries
              /\ call.outcomes[n] \in TransportErrors
      /\ call.pc \in {"returned", "raised"} => k = n - 1
      /\ call.pc = "raised"
           => /\ n = call.retries + 1
              /\ k = call.retries
              /\ call.result = call.outcomes[n]
              /\ call.result \in TransportErrors

\* With retries = 2 and retry_delay = 0.5 s, three failures: 0.5 s and 1.0 s were
\* slept, and the connection error of the third attempt is raised.
C11_Witness ==
  /\ call.pc = "raised"
  /\ call.retries = 2
  /\ call.retry_delay = 5
  /\ call.sleeps = <<5, 10>>
  /\ call.outcomes = <<"timeout", "timeout", "request_error">>
  /\ call.result = "request_error"

\* Every attempt of the proxied call failed at transport level.
AllAttemptsFailed ==
  /\ call.outcomes # <<>>
  /\ \A i \in DOMAIN call.outcomes : call.outcomes[i] \in TransportErrors

\* C12: when every attempt of a call proxied to the defects service fails at
\* transport level, the gateway makes retries + 1 = 3 attempts and answers its
\* client with an error of an unavailable upstream (504 when the last attempt
\* timed out, 503 otherwise), never with a success; and every proxied request is
\* answered.
C12_Answer ==
  (proxy.pc = "answered" /\ AllAttemptsFailed)
    => /\ Len(call.outcomes) = DefaultRetries + 1
       /\ proxy.response.code = IF call.outcomes[Len(call.outcomes)] = "timeout"
                                  THEN 504 ELSE 503
       /\ proxy.response.code \notin {200, 201, 204}

C12_UpstreamUnavailable ==
  /\ []C12_Answer
  /\ (proxy.pc = "waiting") ~> (proxy.pc = "answered")

\* A PATCH whose three attempts failed (the last by a timeout) was answered 504.
C12_Witness ==
  /\ proxy.pc = "answered"
  /\ proxy.route.method = "PATCH"
  /\ call.outcomes = <<"request_error", "request_error", "timeout">>
  /\ proxy.response.code = 504

\* The upstream failed: a timeout, a connection error, or a status other than
\* 200 (and other than 404 for fetch_project).
UpstreamFailed(f) ==
  /\ f.op # None
  /\ f.upstream # "200"
  /\ ~(f.op = "fetch_project" /\ f.upstream = "404")

\* C15: every Data Fetcher operation makes exactly one upstream call, and a
\* timeout, a connection error or a status other than 200 (other than 404 for
\* fetch_project) reaches the caller as ServiceUnavailable (503), the detail
\* carrying the upstream status in the non-200 case; this for every combination
\* of the filter arguments.
C15_FetchFailureIs503 ==
  /\ fetched.op # None => fetched.calls = 1
  /\ UpstreamFailed(fetched)
       => /\ fetched.result.kind = "HTTPException"
          /\ fetched.result.code = 503
          /\ fetched.upstream \notin {"timeout", "connect_error"}
               => \E prefix \in {"Defects service error: ", "Projects service error: "} :
                    fetched.result.detail = prefix \o fetched.upstream

\* The export reached its limit check: the caller has a permitted role and the
\* defects were fetched.
ReachedLimitCheck(x) ==
  /\ x.role \in {"MANAGER", "ADMIN", "SUPERVISOR", "CUSTOMER"}
  /\ x.defects_answer = "200"

\* C13: for any filter values, an export whose date-filtered candidate set has
\* more than 5000 defects is rejected with 400, the message citing the count
\* found and the ceiling 5000 (so for 5001), and an export of at most 5000
\* (so of exactly 5000) succeeds when the projects can be fetched.
C13_ExportLimit ==
  ReachedLimitCheck(exported)
    => /\ exported.candidates > MAX_EXPORT_ROWS
            => /\ exported.response.kind = "HTTPException"
               /\ exported.response.code = 400
               /\ exported.response.detail = ExportLimitDetail(exported.candidates)
       /\ exported.response.code = 400 => exported.candidates > MAX_EXPORT_ROWS
       /\ (exported.candidates <= MAX_EXPORT_ROWS /\ exported.projects_answer = "200")
            => exported.response.code = 200

\* The defects the defects service holds for the caller that match the filters
\* and the date range of the request.
Matching(x) ==
  IF x.bounded THEN x.held.inside ELSE x.held.inside + x.held.outside

\* C14: whenever an export succeeds, the file has exactly one row for every
\* defect the defects service holds for the caller that matches the filters and
\* the date range.
C14_ExportNeverTruncates ==
  (exported.response.kind = "return" /\ exported.response.code = 200)
    => exported.response.data.rows = Matching(exported)

\* The defects of a list whose status is in the given set, by their positions.
WithStatus(ds, statuses) == { i \in 1..Len(ds) : ds[i].status \in statuses }

\* A summary report was generated.
Summarised == generated.op = "generate_summary_report"

\* C16 as stated: in every summary report closed_defects_count +
\* open_defects_count <= total_defects, and the inequality is strict exactly
\* when the defect set contains a CANCELED defect.
C16_StrictIffCanceled ==
  Summarised
    => LET r == generated.result
       IN /\ r.closed_defects_count + r.open_defects_count <= r.total_defects
          /\ r.closed_defects_count + r.open_defects_count < r.total_defects
               <=> WithStatus(generated.defects, {"CANCELED"}) # {}

\* C16, amended: in every summary report closed_defects_count counts the CLOSED
\* defects, open_defects_count those in NEW, IN_PROGRESS or ON_REVIEW, their
\* sum is at most total_defects, and the inequality is strict exactly when the
\* defect set contains a defect that is CANCELED or has no status.
C16_OpenClosedPartition ==
  Summarised
    => LET r == generated.result
           ds == generated.defects
       IN /\ r.total_defects = Len(ds)
          /\ r.closed_defects_count = Cardinality(WithStatus(ds, {"CLOSED"}))
          /\ r.open_defects_count =
               Cardinality(WithStatus(ds, {"NEW", "IN_PROGRESS", "ON_REVIEW"}))
          /\ r.closed_defects_count + r.open_defects_count <= r.total_defects
          /\ r.closed_defects_count + r.open_defects_count < r.total_defects
               <=> WithStatus(ds, {"CANCELED", None}) # {}

\* The summary of one NEW, one CLOSED and one CANCELED defect: closed 1, open 1,
\* total 3.
C16_Witness ==
  /\ Summarised
  /\ Len(generated.defects) = 3
  /\ generated.defects[1].status = "NEW"
  /\ generated.defects[2].status = "CLOSED"
  /\ generated.defects[3].status = "CANCELED"
  /\ generated.result.closed_defects_count = 1
  /\ generated.result.open_defects_count = 1
  /\ generated.result.total_defects = 3

RECURSIVE SumOfCounts(_)
SumOfCounts(entries) ==
  IF entries = <<>> THEN 0 ELSE Head(entries).count + SumOfCounts(Tail(entries))

\* C17: the counts of calculate_status_distribution sum to the number of
\* defects with a non-null status; each status that occurs has exactly one
\* entry, with its exact count; no entry has count zero, and none stands for
\* the defects with a missing status.
C17_StatusDistribution ==
  generated.op = "calculate_status_distribution"
    => LET dist == generated.result
           ds == generated.defects
       IN /\ SumOfCounts(dist) = Cardinality(WithStatus(ds, DefectStatus))
          /\ \A s \in DefectStatus :
               WithStatus(ds, {s}) # {}
                 => /\ Cardinality({ i \in 1..Len(dist) : dist[i].status = s }) = 1
                    /\ \E i \in 1..Len(dist) :
                         /\ dist[i].status = s
                         /\ dist[i].count = Cardinality(WithStatus(ds, {s}))
          /\ \A i \in 1..Len(dist) :
               /\ dist[i].count > 0
               /\ dist[i].status \in DefectStatus

\* A distribution over two defects of one status and one without a status.
C17_Witness ==
  /\ generated.op = "calculate_status_distribution"
  /\ Len(generated.defects) = 3
  /\ generated.defects[1].status = "NEW"
  /\ generated.defects[2].status = None
  /\ generated.defects[3].status = "NEW"
  /\ generated.result = <<[status |-> "NEW", count |-> 2]>>

\* A defect that qualifies for the average resolution time: CLOSED, with both
\* timestamps present and parsing.
Qualifies(d) ==
  /\ d.status = "CLOSED"
  /\ d.created_at \in DOMAIN IsoStrings
  /\ d.updated_at \in DOMAIN IsoStrings

\* Seconds since the start of January 2024 of a timestamp string that parses.
SecondsOf(s) == (IsoStrings[s].date - 1) * 86400 + IsoStrings[s].seconds

\* The sum of updated_at - created_at, in seconds, over a set of positions.
RECURSIVE ResolutionSeconds(_, _)
ResolutionSeconds(ds, positions) ==
  IF positions = {} THEN 0
  ELSE LET i == CHOOSE j \in positions : TRUE
       IN SecondsOf(ds[i].updated_at) - SecondsOf(ds[i].created_at)
            + ResolutionSeconds(ds, positions \ {i})

InDateRange(d, start_date, end_date) ==
  /\ d.created_at \in DOMAIN IsoStrings
  /\ start_date # None => Dates[start_date] <= IsoStrings[d.created_at].date
  /\ end_date # None => IsoStrings[d.created_at].date <= Dates[end_date]

\* The defects of the list inside the bounds, in the order of the list.
RECURSIVE InsideRange(_, _, _)
InsideRange(ds, start_date, end_date) ==
  IF ds = <<>> THEN <<>>
  ELSE IF InDateRange(Head(ds), start_date, end_date)
       THEN <<Head(ds)>> \o InsideRange(Tail(ds), start_date, end_date)
       ELSE InsideRange(Tail(ds), start_date, end_date)

\* C19: filter_by_date_range returns, in the input order, exactly the defects
\* whose created_at date is inside the bounds given, both inclusive; with both
\* bounds absent it returns the input unchanged.
C19_FilterByDateRange ==
  generated.op = "filter_by_date_range"
    => /\ generated.result.kind = "return"
       /\ generated.result.data =
            IF generated.start_date = None /\ generated.end_date = None
            THEN generated.defects
            ELSE InsideRange(generated.defects, generated.start_date,
                             generated.end_date)

\* The history entries whose defect is still in the defects table after the
\* step, by their positions.
Surviving == { i \in 1..Len(history) : history[i].defect_id \in DOMAIN defects' }

\* C20: history is append-only. In every step of create, PATCH, comment,
\* attachment, read and delete operations, every history entry of a defect
\* that still exists stays where it is, unmodified, new entries come after
\* the old ones, and an entry is gone only if its defect is gone too.
C20_HistoryAppendOnly ==
  [][ /\ \A i \in 1..Len(history) :
           i \in Surviving => (i <= Len(history') /\ history'[i] = history[i])
      /\ Surviving = 1..Len(history) => Len(history') >= Len(history)
      /\ \A d \in DOMAIN defects \cap DOMAIN defects' :
           Cardinality({ i \in 1..Len(history') : history'[i].defect_id = d })
             >= Cardinality({ i \in 1..Len(history) : history[i].defect_id = d })
    ]_vars

\* A defect with its creation entry and the entries of a PATCH, a comment and
\* an attachment on it, its history read, and its deletion attempted by a
\* caller allowed to delete it.
C20_Witness ==
  /\ Len(history) >= 3
  /\ comments # <<>>
  /\ comments[1].text = "c2"
  /\ attachments # <<>>
  /\ listing.response.code = 200
  /\ Len(listing.data) >= 2
  /\ removed.defect_id = 1
  /\ removed.caller.role = "MANAGER"

\* The last DELETE /defects/{id} was a permitted one on an existing defect: it
\* was refused neither with 404 nor with 403.
PermittedDelete ==
  /\ removed.defect_id # 0
  /\ removed.response.code \notin {403, 404}

\* The rows of the three child tables that refer to a defect not in the
\* defects table.
Orphans(rows) == { i \in 1..Len(rows) : rows[i].defect_id \notin DOMAIN defects }

\* C21: a permitted DELETE /defects/{id} on an existing defect succeeds and
\* removes the defect with all of its history entries, comments and
\* attachments: afterwards no history entry, comment or attachment refers to
\* a defect that does not exist.
C21_DeleteCascades ==
  /\ PermittedDelete
       => /\ removed.response.code = 200
          /\ removed.defect_id \notin DOMAIN defects
  /\ Orphans(history) = {}
  /\ Orphans(comments) = {}
  /\ Orphans(attachments) = {}

ImmutableFields == {"id", "author_id", "project_id", "created_at"}

\* C23: no PATCH, whatever its payload and caller, changes a defect's
\* author_id, id, project_id or created_at: in every step these keep the
\* values the defect had, so after any sequence of updates they are those set
\* at creation.
C23_ImmutableFields ==
  [][ \A d \in DOMAIN defects \cap DOMAIN defects' :
        \A f \in ImmutableFields : defects'[d][f] = defects[d][f]
    ]_vars

\* A defect created by u1 at time 0, changed at time 1 by a PATCH of u2 that
\* went through.
C23_Witness ==
  /\ 1 \in DOMAIN defects
  /\ done.response.code = 200
  /\ done.caller.user_id = "u2"
  /\ done.payload.title = "t2"
  /\ defects[1].title = "t2"
  /\ defects[1].author_id = "u1"
  /\ defects[1].created_at = 0
  /\ defects[1].updated_at = 1

\* The legal targets of each status, as the service documents them.
LegalTargets ==
  [s \in DefectStatus |->
     IF s = "NEW" THEN {"IN_PROGRESS", "CANCELED"}
     ELSE IF s = "IN_PROGRESS" THEN {"ON_REVIEW", "CANCELED"}
     ELSE IF s = "ON_REVIEW" THEN {"CLOSED", "IN_PROGRESS", "CANCELED"}
     ELSE {}]

\* The last PATCH answered carried a status that is an illegal move from the
\* status the handler validated it against, and got as far as that validation.
IllegalMoveAnswered ==
  /\ done.response.kind \in {"ok", "final status", "invalid transition"}
  /\ InPayload(done.payload, "status")
  /\ done.payload.status # done.defect.status
  /\ done.payload.status \notin LegalTargets[done.defect.status]

\* C24: an illegal transition is rejected with 400 and a message that lets
\* the caller act: from CLOSED or CANCELED the message says "final status"
\* and names the current status; any other illegal move is answered with a
\* message that names the current status, the rejected target and the full
\* allowed set (for NEW -> CLOSED: IN_PROGRESS and CANCELED only).
C24_TransitionMessages ==
  IllegalMoveAnswered
    => /\ done.response.code = 400
       /\ done.response.current = done.defect.status
       /\ IF done.defect.status \in {"CLOSED", "CANCELED"}
            THEN done.response.kind = "final status"
            ELSE /\ done.response.kind = "invalid transition"
                 /\ done.response.target = done.payload.status
                 /\ done.response.allowed = LegalTargets[done.defect.status]
       /\ (done.defect.status = "NEW" /\ done.payload.status = "CLOSED")
            => done.response.allowed = {"IN_PROGRESS", "CANCELED"}

\* PATCH {status: CLOSED} on a NEW defect, answered.
C24_Witness ==
  /\ IllegalMoveAnswered
  /\ done.defect.status = "NEW"
  /\ done.payload.status = "CLOSED"
  /\ done.response.kind = "invalid transition"

\* C25: the single request of fetch_defects with page size 10000 is honoured
\* by the list endpoint of the defects service: whenever the service holds at
\* most 10000 defects matching the filters, fetch_defects returns all of them.
C25_LargePageHonoured ==
  (fetched.op = "fetch_defects" /\ fetched.held <= FetchLimit)
    => /\ fetched.upstream = "200"
       /\ fetched.result.kind = "return"
       /\ fetched.result.data = fetched.held

\* The status of a PATCH payload is an illegal move from the status loaded.
IllegalMove(rq) ==
  /\ InPayload(rq.payload, "status")
  /\ rq.payload.status # rq.defect.status
  /\ rq.payload.status \notin LegalTargets[rq.defect.status]

\* The code the gates of update_defect give a PATCH, the earliest failing gate
\* first: the load, the authorization, the assignee validation (with the
\* directory's answer), the status validation.
EarliestGate(rq) ==
  IF rq.defect.id = 0 THEN 404
  ELSE IF UpdateForbidden(rq.defect, rq.caller) THEN 403
  ELSE IF NeedsDirectory(rq.payload) /\ rq.directory = "404" THEN 404
  ELSE IF NeedsDirectory(rq.payload) /\ rq.directory # "200" THEN 503
  ELSE IF IllegalMove(rq) THEN 400
  ELSE 200

\* C26: update_defect runs its gates in the order load, authorization,
\* assignee validation, status validation, and only then records and commits;
\* when several gates would fail the error is that of the earliest one (404
\* before 403 before the assignee's 404/503 before the transition's 400), and
\* the directory is not called when the defect is absent or the caller is
\* forbidden.
C26_GateOrder ==
  /\ done.response.code # 0
       => /\ done.response.code = EarliestGate(done)
          /\ (done.defect.id = 0 \/ UpdateForbidden(done.defect, done.caller))
               => done.directory = None
          /\ done.directory # None => NeedsDirectory(done.payload)
  /\ \A r \in Requests :
       pc[r] = "validate_user"
         => /\ req[r].defect.id # 0
            /\ ~UpdateForbidden(req[r].defect, req[r].caller)
            /\ NeedsDirectory(req[r].payload)

\* A PATCH by an ENGINEER who neither wrote nor is assigned the defect, asking
\* for an assignee and for an illegal status: refused with 403, the directory
\* not called.
C26_Witness ==
  /\ done.response.code = 403
  /\ done.caller.role = "ENGINEER"
  /\ NeedsDirectory(done.payload)
  /\ IllegalMove(done)
  /\ done.directory = None

\* A PATCH with an illegal status whose assignee the directory does not know:
\* refused with the assignee's 404, not the transition's 400.
C26_WitnessAssigneeFirst ==
  /\ done.response.code = 404
  /\ done.defect.id # 0
  /\ done.directory = "404"
  /\ IllegalMove(done)

\* The history entries of defect d for field f, by their positions (history is
\* kept in commit order).
EntriesOf(d, f) == { i \in HistoryOf(d) : history[i].field_name = f }

\* The values a tracked field can have been given at creation, in string form:
\* the status of the create request, and the fields of the create bodies.
CreationValues(d, f) ==
  IF f = "status" THEN { PyStr(b.status) : b \in { c \in CreateBodies : created.id = d => c.status = created.status } }
  ELSE { PyStr(b[f]) : b \in CreateBodies }

\* C27: for each tracked field of a defect its history entries, in commit
\* order, form a chain: the old_value of each entry is the new_value of the
\* previous entry for that field (the string form of the creation value for
\* the first), and the new_value of the latest entry is the string form of
\* the defect's current value; also after concurrent PATCHes on the defect.
C27_HistoryChain ==
  \A d \in DOMAIN defects :
    \A k \in 1..Len(tracked_fields) :
      LET f == tracked_fields[k]
          E == EntriesOf(d, f)
      IN  /\ \A i \in E, j \in E :
               (i < j /\ ~\E n \in E : i < n /\ n < j)
                 => history[j].old_value = history[i].new_value
          /\ \A i \in E :
               (\A n \in E : i <= n) => history[i].old_value \in CreationValues(d, f)
          /\ \A j \in E :
               (\A n \in E : n <= j) => history[j].new_value = PyStr(defects[d][f])

\* C28: every defect persisted by create_defect has status NEW at creation: a
\* create request cannot place a defect directly in IN_PROGRESS, ON_REVIEW,
\* CLOSED or CANCELED, so a defect whose history has no status change is NEW
\* and its creation entry says NEW.
C28_CreatedAsNew ==
  /\ created.response.code = 201 => created.status = "NEW"
  /\ \A d \in DOMAIN defects :
       /\ EntriesOf(d, "status") = {} => defects[d].status = "NEW"
       /\ \A i \in EntriesOf(d, "created") :
            history[i].new_value = "Defect created with status NEW"

\* The resolution time the reports derive for a defect row: updated_at -
\* created_at, in clock units.
ResolutionTime(row) == row.updated_at - row.created_at

\* C29: once a defect is CLOSED its resolution time stays fixed: no later
\* successful PATCH on the closed defect (a change of another field, or a
\* no-op with the same status) changes updated_at - created_at.
C29_ResolutionTimeFixed ==
  [][ \A d \in DOMAIN defects \cap DOMAIN defects' :
        defects[d].status = "CLOSED"
          => ResolutionTime(defects'[d]) = ResolutionTime(defects[d])
    ]_vars

\* C30: one client POST /defects/ forwarded by the gateway creates at most one
\* defect in the defects service, also when an attempt times out after the
\* service has committed and request_with_retry sends the request again.
C30_AtMostOneDefect ==
  proxy.pc # "idle" =>
    /\ Cardinality(DOMAIN defects) <= 1
    /\ Cardinality({ i \in DOMAIN history : history[i].field_name = "created" }) <= 1

====
